---- MODULE Spec2Model ----
(***************************************************************************)
(* The camera view-state logic of the virtual-office scene, in its two     *)
(* implementations: src/src/main.js ("main") and src/unnamed/part_000      *)
(* ("part000").  Lengths are in hundredths of a scene unit, times in       *)
(* tenths of a second.  Names of scene-graph nodes are sequences of        *)
(* one-character strings, so that includes() and toLowerCase() are          *)
(* computed character by character.                                        *)
(***************************************************************************)
EXTENDS Integers, Sequences, FiniteSets, TLC

VARIABLES
    impl,            \* which of the two programs is running
    loadState,       \* loader.load: "pending", "loaded" or "failed"
    scene,           \* the meshes of the scene graph a ray can hit, by uuid
    monitorMesh,     \* the resolved interactive surface, or null
    controlsEnabled, \* controls.enabled
    overlayHidden,   \* overlay.classList.contains('hidden')
    uiHintShown,     \* uiHint is displayed (display 'block' / opacity 1)
    cameraPos,       \* camera.position
    controlsTarget,  \* controls.target
    cameraLook,      \* the point last given to camera.lookAt
    tweens,          \* gsap's running tweens, in order of start
    idleTime,        \* main.js: idleTime
    sinceInput,      \* main.js: sum of animate's dt since the last input event
    picked,          \* onPointerDown: intersects[0].object of the last pick, or null
    e                \* the event the last step handled

vars == <<impl, loadState, scene, monitorMesh, controlsEnabled, overlayHidden,
          uiHintShown, cameraPos, controlsTarget, cameraLook, tweens, idleTime,
          sinceInput, picked, e>>

----------------------------------------------------------------------------
(* Bounds of the model *)

\* tenths of a second between two display refreshes
TickDt == 5
\* most tweens gsap holds at once
MaxTweens == 3
\* cap of the idle clock, in refreshes beyond the threshold
IdleSlack == 2

----------------------------------------------------------------------------
(* Node names *)

Upper == <<"A","B","C","D","E","F","G","H","I","J","K","L","M",
           "N","O","P","Q","R","S","T","U","V","W","X","Y","Z">>
Lower == <<"a","b","c","d","e","f","g","h","i","j","k","l","m",
           "n","o","p","q","r","s","t","u","v","w","x","y","z">>

toLowerChar(c) ==
    IF \E i \in 1..26 : Upper[i] = c
    THEN Lower[CHOOSE i \in 1..26 : Upper[i] = c]
    ELSE c

toLowerCase(s) == [i \in 1..Len(s) |-> toLowerChar(s[i])]

includes(s, sub) ==
    \E i \in 1..(Len(s) - Len(sub) + 1) : SubSeq(s, i, i + Len(sub) - 1) = sub

S_monitor == <<"m","o","n","i","t","o","r">>
S_screen == <<"s","c","r","e","e","n">>
S_Desk == <<"D","e","s","k">>
S_Screen == <<"S","c","r","e","e","n">>
S_Monitor_Screen == <<"M","o","n","i","t","o","r","_","S","c","r","e","e","n">>
S_monitor_screen == <<"m","o","n","i","t","o","r","_","s","c","r","e","e","n">>
S_Screen_Plane_clickable ==
    <<"S","c","r","e","e","n","_","P","l","a","n","e","_",
      "c","l","i","c","k","a","b","l","e">>
S_MONITOR_Stand == <<"M","O","N","I","T","O","R","_","S","t","a","n","d">>
S_Desk_Top == <<"D","e","s","k","_","T","o","p">>
S_screen_bezel == <<"s","c","r","e","e","n","_","b","e","z","e","l">>
S_Chair == <<"C","h","a","i","r">>

----------------------------------------------------------------------------
(* Scene-graph objects: a mesh is its uuid and its name; the state holds the  *)
(* uuid, which stands for the object's identity                              *)

Null == [uuid |-> 0, name |-> <<>>]
null == Null.uuid

floor == [uuid |-> 1, name |-> <<>>]
deskTop == [uuid |-> 2, name |-> <<>>]
proceduralScreen == [uuid |-> 3, name |-> S_monitor_screen]

\* meshes /assets/office.glb may hold, as main.js reads it
MainAssetNodes ==
    { [uuid |-> 10, name |-> S_Screen_Plane_clickable],
      [uuid |-> 11, name |-> S_MONITOR_Stand],
      [uuid |-> 12, name |-> S_Chair] }

\* meshes /assets/office.glb may hold, as part_000 reads it
P0AssetNodes ==
    { [uuid |-> 20, name |-> S_Monitor_Screen],
      [uuid |-> 21, name |-> S_Desk_Top],
      [uuid |-> 22, name |-> S_screen_bezel],
      [uuid |-> 23, name |-> S_Chair] }

AllNodes == {floor, deskTop, proceduralScreen} \cup MainAssetNodes \cup P0AssetNodes

uuids(nodes) == {o.uuid : o \in nodes}

nameOf(u) == (CHOOSE o \in AllNodes : o.uuid = u).name

getObjectByName(root, n) ==
    IF \E o \in root : o.name = n
    THEN (CHOOSE o \in root : o.name = n).uuid
    ELSE null

----------------------------------------------------------------------------
(* Camera poses *)

Main_WIDE_SHOT_POS == <<850, 2300, -3600>>
Main_WIDE_SHOT_TARGET == <<650, 240, -220>>
P0_WIDE_SHOT_POS == <<1197, 1959, -2695>>
P0_WIDE_SHOT_TARGET == <<-95, 470, -239>>
SIT_POS == <<-340, 640, 327>>
SIT_TARGET == <<-344, 616, 422>>

WIDE_SHOT_POS == IF impl = "main" THEN Main_WIDE_SHOT_POS ELSE P0_WIDE_SHOT_POS
WIDE_SHOT_TARGET == IF impl = "main" THEN Main_WIDE_SHOT_TARGET ELSE P0_WIDE_SHOT_TARGET

\* where a drag of the orbit controls may leave the camera
OrbitPoses == { <<-1200, 1500, -3000>> }

----------------------------------------------------------------------------
(* The tween engine (gsap), as the two programs use it *)

Main_FLY_IN_DURATION == 12
Main_FLY_OUT_DURATION == 10
P0_FLY_DURATION == 15
P0_INTRO_DURATION == 20
P0_INTRO_FROM_Y == 5000
IDLE_THRESHOLD == 15

Min(a, b) == IF a < b THEN a ELSE b

RECURSIVE Pow(_, _)
Pow(b, n) == IF n = 0 THEN 1 ELSE b * Pow(b, n - 1)

\* duration: of each gsap call
Duration(kind) ==
    CASE kind = "flyIn" -> Main_FLY_IN_DURATION
      [] kind = "flyOut" -> Main_FLY_OUT_DURATION
      [] kind = "intro" -> P0_INTRO_DURATION
      [] OTHER -> P0_FLY_DURATION

\* ease: 'power3...' is the fourth power, 'power2...' the third
EasePower(kind) == IF kind \in {"flyIn", "flyOut", "intro"} THEN 4 ELSE 3

\* the eased progress at time t of d, as <<numerator, denominator>>:
\* '.out' is 1 - (1-p)^n, '.inOut' is (2p)^n / 2 below one half and
\* 1 - (2(1-p))^n / 2 above
EaseRatio(kind, t) ==
    LET d == Duration(kind)
        n == EasePower(kind)
        den == Pow(d, n)
    IN  IF kind = "intro"
        THEN <<den - Pow(d - t, n), den>>
        ELSE IF 2 * t < d
             THEN <<Pow(2, n - 1) * Pow(t, n), den>>
             ELSE <<den - Pow(2, n - 1) * Pow(d - t, n), den>>

Lerp(a, b, r) == a + ((b - a) * r[1]) \div r[2]

Lerp3(p, q, r) == <<Lerp(p[1], q[1], r), Lerp(p[2], q[2], r), Lerp(p[3], q[3], r)>>

\* the object a tween animates
OnPosition(kind) == kind \in {"flyIn", "flyOut", "posIn", "posOut", "intro"}

\* the tweens that carry an onComplete: one per camera transition
IsFly(kind) == kind \in {"flyIn", "flyOut", "tgtIn", "tgtOut"}
IsFlyIn(kind) == kind \in {"flyIn", "tgtIn"}
IsFlyOut(kind) == kind \in {"flyOut", "tgtOut"}

\* gsap.to(target, {...}): start values are read at the first render
NewTween(kind, to) ==
    [kind |-> kind, t |-> 0, initted |-> FALSE, from |-> to, to |-> to]

\* gsap.from(camera.position, {y: 50, ...}): rendered at once, runs back to the
\* value y had
IntroTween(pos) ==
    [kind |-> "intro", t |-> 0, initted |-> TRUE,
     from |-> <<pos[1], P0_INTRO_FROM_Y, pos[3]>>, to |-> pos]

\* main.js openOverlay(), on the engine's working state
Main_openOverlay(st) ==
    [st EXCEPT !.hidden = FALSE, !.hint = FALSE, !.enabled = FALSE]

\* part_000 openOverlay(), on the engine's working state
P0_openOverlay(st) == [st EXCEPT !.hidden = FALSE, !.hint = FALSE]

\* onComplete with the fly-out's callback left empty: controls.enabled is not
\* set back to true when the camera has returned
onComplete_NoReenable(kind, st) ==
    CASE kind = "flyIn" -> Main_openOverlay(st)
      [] kind = "tgtIn" -> P0_openOverlay(st)
      [] OTHER -> st

\* the onComplete callback of a tween
onComplete(kind, st) ==
    CASE kind = "flyIn" -> Main_openOverlay(st)
      [] kind = "tgtIn" -> P0_openOverlay(st)
      [] kind \in {"flyOut", "tgtOut"} -> [st EXCEPT !.enabled = TRUE]
      [] OTHER -> st

\* the onUpdate callback of a tween: camera.lookAt(...)
onUpdate(kind, st) ==
    CASE kind = "flyIn" -> [st EXCEPT !.look = SIT_TARGET]
      [] kind = "flyOut" -> [st EXCEPT !.look = Main_WIDE_SHOT_TARGET]
      [] kind \in {"tgtIn", "tgtOut"} -> [st EXCEPT !.look = st.tgt]
      [] OTHER -> st

\* one tween rendered dt later: its property written, then onUpdate, then, at
\* its end, onComplete; a finished tween leaves the engine
RenderTween(st, tw) ==
    LET t2 == Min(tw.t + TickDt, Duration(tw.kind))
        cur == IF OnPosition(tw.kind) THEN st.pos ELSE st.tgt
        from == IF tw.initted THEN tw.from ELSE cur
        val == Lerp3(from, tw.to, EaseRatio(tw.kind, t2))
        new == IF tw.kind = "intro" THEN <<cur[1], val[2], cur[3]>> ELSE val
        st1 == IF OnPosition(tw.kind) THEN [st EXCEPT !.pos = new]
               ELSE [st EXCEPT !.tgt = new]
        st2 == onUpdate(tw.kind, st1)
        done == t2 = Duration(tw.kind)
        st3 == IF done THEN onComplete(tw.kind, st2) ELSE st2
        tw2 == [tw EXCEPT !.t = t2, !.initted = TRUE, !.from = from]
    IN  [st3 EXCEPT !.running = IF done THEN @ ELSE Append(@, tw2)]

\* one tick of gsap's timeline: its tweens rendered in order of start (each
\* intermediate state is bound as a value, so that it is computed once)
RECURSIVE RenderAll(_, _, _)
RenderAll(st, tws, i) ==
    IF i > Len(tws) THEN st
    ELSE CHOOSE r \in {RenderAll(v, tws, i + 1) : v \in {RenderTween(st, tws[i])}} : TRUE

----------------------------------------------------------------------------
(* State after the module has run to its end *)

Init ==
    /\ impl \in {"main", "part000"}
    /\ loadState = "pending"
    /\ scene = IF impl = "main" THEN {floor.uuid} ELSE {}
    /\ monitorMesh = null
    /\ controlsEnabled = TRUE
    /\ overlayHidden = TRUE
    /\ uiHintShown = TRUE
    /\ cameraPos = WIDE_SHOT_POS
    /\ controlsTarget = WIDE_SHOT_TARGET
    /\ cameraLook = WIDE_SHOT_TARGET
    /\ tweens = <<>>
    /\ idleTime = 0
    /\ sinceInput = 0
    /\ picked = null
    /\ e = [type |-> "init"]

----------------------------------------------------------------------------
(* The tween engine's tick, shared by both programs *)

\* what the tweens and their callbacks write, and the tweens that stay running
EngineState ==
    [pos |-> cameraPos, tgt |-> controlsTarget, look |-> cameraLook,
     enabled |-> controlsEnabled, hidden |-> overlayHidden,
     hint |-> uiHintShown, running |-> <<>>]

GsapTick ==
    /\ tweens # <<>>
    /\ \E st \in {RenderAll(EngineState, tweens, 1)} :
           /\ cameraPos' = st.pos
           /\ controlsTarget' = st.tgt
           /\ cameraLook' = st.look
           /\ controlsEnabled' = st.enabled
           /\ overlayHidden' = st.hidden
           /\ uiHintShown' = st.hint
           /\ tweens' = st.running
    /\ e' = [type |-> "tick"]
    /\ UNCHANGED <<impl, loadState, scene, monitorMesh, idleTime, sinceInput, picked>>

----------------------------------------------------------------------------
(* src/src/main.js *)

\* loader.load success callback
Main_onLoad(asset) ==
    /\ impl = "main"
    /\ loadState = "pending"
    /\ loadState' = "loaded"
    /\ monitorMesh' = getObjectByName(asset, S_Screen_Plane_clickable)
    /\ scene' = scene \cup uuids(asset)
    /\ e' = [type |-> "load"]
    /\ UNCHANGED <<impl, controlsEnabled, overlayHidden, uiHintShown, cameraPos,
                   controlsTarget, cameraLook, tweens, idleTime, sinceInput, picked>>

\* Main_onError with a procedural desk that leaves monitorMesh as it was
Main_onError_NoMonitor ==
    /\ impl = "main"
    /\ loadState = "pending"
    /\ loadState' = "failed"
    /\ scene' = scene \cup {deskTop.uuid, proceduralScreen.uuid}
    /\ e' = [type |-> "error"]
    /\ UNCHANGED <<impl, monitorMesh, controlsEnabled, overlayHidden, uiHintShown,
                   cameraPos, controlsTarget, cameraLook, tweens, idleTime, sinceInput,
                   picked>>

\* loader.load error callback: buildProceduralDesk()
Main_onError ==
    /\ impl = "main"
    /\ loadState = "pending"
    /\ loadState' = "failed"
    /\ monitorMesh' = proceduralScreen.uuid
    /\ scene' = scene \cup {deskTop.uuid, proceduralScreen.uuid}
    /\ e' = [type |-> "error"]
    /\ UNCHANGED <<impl, controlsEnabled, overlayHidden, uiHintShown, cameraPos,
                   controlsTarget, cameraLook, tweens, idleTime, sinceInput, picked>>

\* the test of onPointerDown on the nearest hit; identity and equal uuid are
\* one test here
Main_IsInteractive(obj) ==
    /\ monitorMesh # null
    /\ \/ obj = monitorMesh
       \/ includes(toLowerCase(nameOf(obj)), S_monitor)
       \/ includes(toLowerCase(nameOf(obj)), S_screen)

\* focusOnMonitor()
Main_focusOnMonitor ==
    IF monitorMesh = null
    THEN UNCHANGED <<controlsEnabled, tweens>>
    ELSE /\ controlsEnabled' = FALSE
         /\ tweens' = Append(tweens, NewTween("flyIn", SIT_POS))

\* a pointerdown on the canvas: the orbit controls' 'start' listener when the
\* controls take input, then onPointerDown with the ray's nearest hit
Main_onPointerDown(hit) ==
    /\ impl = "main"
    /\ overlayHidden
    /\ hit \in scene \cup {null}
    /\ (hit # null /\ Main_IsInteractive(hit)) => Len(tweens) < MaxTweens
    /\ idleTime' = IF controlsEnabled THEN 0 ELSE idleTime
    /\ sinceInput' = 0
    /\ picked' = hit
    /\ IF hit # null /\ Main_IsInteractive(hit)
       THEN Main_focusOnMonitor
       ELSE UNCHANGED <<controlsEnabled, tweens>>
    /\ e' = [type |-> "pointerdown"]
    /\ UNCHANGED <<impl, loadState, scene, monitorMesh, overlayHidden, uiHintShown,
                   cameraPos, controlsTarget, cameraLook>>

\* the click listener of the close button
Main_closeHandler ==
    /\ overlayHidden' = TRUE
    /\ uiHintShown' = TRUE
    /\ tweens' = Append(tweens, NewTween("flyOut", Main_WIDE_SHOT_POS))

\* a click on the close button, which lies inside the overlay
Main_onCloseClick ==
    /\ impl = "main"
    /\ ~overlayHidden
    /\ Len(tweens) < MaxTweens
    /\ Main_closeHandler
    /\ sinceInput' = 0
    /\ e' = [type |-> "click"]
    /\ UNCHANGED <<impl, loadState, scene, monitorMesh, controlsEnabled, cameraPos,
                   controlsTarget, cameraLook, idleTime, picked>>

Keys == {"Escape", "Enter"}

\* the keydown listener of window
Main_onKeydown(key) ==
    /\ impl = "main"
    /\ (key = "Escape" /\ ~overlayHidden) => Len(tweens) < MaxTweens
    /\ IF key = "Escape" /\ ~overlayHidden
       THEN Main_closeHandler
       ELSE UNCHANGED <<overlayHidden, uiHintShown, tweens>>
    /\ sinceInput' = 0
    /\ e' = [type |-> "keydown", key |-> key]
    /\ UNCHANGED <<impl, loadState, scene, monitorMesh, controlsEnabled, cameraPos,
                   controlsTarget, cameraLook, idleTime, picked>>
\* points of the circle x = 6 sin t, z = 6 cos t
IdleOrbitPoints == { <<0, 600>>, <<600, 0>>, <<360, 480>>, <<-480, -360>> }

OnIdleOrbit(pos) == pos[1] * pos[1] + pos[3] * pos[3] = 600 * 600

\* updateControlsIdle(dt); no statement of main.js calls it
updateControlsIdle(dt) ==
    IF ~controlsEnabled
    THEN UNCHANGED <<idleTime, cameraPos, cameraLook>>
    ELSE /\ idleTime' = idleTime + dt
         /\ IF idleTime + dt > IDLE_THRESHOLD
            THEN /\ \E p \in IdleOrbitPoints : cameraPos' = <<p[1], cameraPos[2], p[2]>>
                 /\ cameraLook' = <<0, 100, 0>>
            ELSE UNCHANGED <<cameraPos, cameraLook>>

\* the longest idle clock the model tells apart
IdleCap == IDLE_THRESHOLD + IdleSlack * TickDt

\* animate(): dt from performance.now(), controls.update() when the controls
\* are enabled, render
Main_animate ==
    /\ impl = "main"
    /\ sinceInput' = Min(sinceInput + TickDt, IdleCap)
    /\ cameraLook' = IF controlsEnabled THEN controlsTarget ELSE cameraLook
    /\ e' = [type |-> "frame"]
    /\ UNCHANGED <<impl, loadState, scene, monitorMesh, controlsEnabled, overlayHidden,
                   uiHintShown, cameraPos, controlsTarget, tweens, idleTime, picked>>

\* the listener of the orbit controls' 'start' event, and the drag that follows
Main_onControlsStart(pose) ==
    /\ impl = "main"
    /\ controlsEnabled
    /\ overlayHidden
    /\ idleTime' = 0
    /\ sinceInput' = 0
    /\ cameraPos' = pose
    /\ e' = [type |-> "start"]
    /\ UNCHANGED <<impl, loadState, scene, monitorMesh, controlsEnabled, overlayHidden,
                   uiHintShown, controlsTarget, cameraLook, tweens, picked>>

----------------------------------------------------------------------------
(* src/unnamed/part_000 *)

\* loader.load success callback: the traversal, then the intro tween
P0_onLoad(asset) ==
    /\ impl = "part000"
    /\ loadState = "pending"
    /\ loadState' = "loaded"
    /\ monitorMesh' =
          IF \E c \in asset : includes(c.name, S_Monitor_Screen)
          THEN (CHOOSE c \in asset : includes(c.name, S_Monitor_Screen)).uuid
          ELSE monitorMesh
    /\ scene' = scene \cup uuids(asset)
    /\ cameraPos' = <<cameraPos[1], P0_INTRO_FROM_Y, cameraPos[3]>>
    /\ tweens' = Append(tweens, IntroTween(cameraPos))
    /\ e' = [type |-> "load"]
    /\ UNCHANGED <<impl, controlsEnabled, overlayHidden, uiHintShown, controlsTarget,
                   cameraLook, idleTime, sinceInput, picked>>

\* loader.load error callback: console.error only
P0_onError ==
    /\ impl = "part000"
    /\ loadState = "pending"
    /\ loadState' = "failed"
    /\ e' = [type |-> "error"]
    /\ UNCHANGED <<impl, scene, monitorMesh, controlsEnabled, overlayHidden, uiHintShown,
                   cameraPos, controlsTarget, cameraLook, tweens, idleTime, sinceInput,
                   picked>>

\* the test of onPointerDown on the nearest hit
P0_IsInteractive(obj) ==
    \/ obj = monitorMesh
    \/ includes(nameOf(obj), S_Desk)
    \/ includes(nameOf(obj), S_Screen)

\* moveToMonitor()
P0_moveToMonitor ==
    /\ controlsEnabled' = FALSE
    /\ tweens' = tweens \o <<NewTween("posIn", SIT_POS), NewTween("tgtIn", SIT_TARGET)>>

\* a pointerdown anywhere in the window: onPointerDown with the ray's nearest hit
P0_onPointerDown(hit) ==
    /\ impl = "part000"
    /\ hit \in scene \cup {null}
    /\ IF ~controlsEnabled
       THEN UNCHANGED <<picked, controlsEnabled, tweens>>
       ELSE /\ picked' = hit
            /\ IF hit # null /\ P0_IsInteractive(hit)
               THEN P0_moveToMonitor
               ELSE UNCHANGED <<controlsEnabled, tweens>>
    /\ e' = [type |-> "pointerdown"]
    /\ UNCHANGED <<impl, loadState, scene, monitorMesh, overlayHidden, uiHintShown,
                   cameraPos, controlsTarget, cameraLook, idleTime, sinceInput>>

\* hideOverlay()
P0_hideOverlay ==
    /\ overlayHidden' = TRUE
    /\ uiHintShown' = TRUE

\* returnToOffice(), the click listener of the close button, which lies inside
\* the overlay
P0_returnToOffice ==
    /\ impl = "part000"
    /\ ~overlayHidden
    /\ P0_hideOverlay
    /\ tweens' = tweens \o <<NewTween("posOut", P0_WIDE_SHOT_POS),
                             NewTween("tgtOut", P0_WIDE_SHOT_TARGET)>>
    /\ e' = [type |-> "click"]
    /\ UNCHANGED <<impl, loadState, scene, monitorMesh, controlsEnabled, cameraPos,
                   controlsTarget, cameraLook, idleTime, sinceInput, picked>>

\* a key pressed: part_000 registers no keydown listener
P0_onKeydown(key) ==
    /\ impl = "part000"
    /\ e' = [type |-> "keydown", key |-> key]
    /\ UNCHANGED <<impl, loadState, scene, monitorMesh, controlsEnabled, overlayHidden,
                   uiHintShown, cameraPos, controlsTarget, cameraLook, tweens, idleTime,
                   sinceInput, picked>>

\* animate(): controls.update(), render
P0_animate ==
    /\ impl = "part000"
    /\ cameraLook' = controlsTarget
    /\ e' = [type |-> "frame"]
    /\ UNCHANGED <<impl, loadState, scene, monitorMesh, controlsEnabled, overlayHidden,
                   uiHintShown, cameraPos, controlsTarget, tweens, idleTime, sinceInput,
                   picked>>

\* a drag of the orbit controls, which take input only when enabled
P0_onControlsDrag(pose) ==
    /\ impl = "part000"
    /\ controlsEnabled
    /\ cameraPos' = pose
    /\ e' = [type |-> "start"]
    /\ UNCHANGED <<impl, loadState, scene, monitorMesh, controlsEnabled, overlayHidden,
                   uiHintShown, controlsTarget, cameraLook, tweens, idleTime, sinceInput,
                   picked>>

----------------------------------------------------------------------------
(* The programs *)

Next ==
    \/ GsapTick
    \/ \E asset \in SUBSET MainAssetNodes : Main_onLoad(asset)
    \/ Main_onError
    \/ \E hit \in scene \cup {null} : Main_onPointerDown(hit)
    \/ Main_onCloseClick
    \/ \E key \in Keys : Main_onKeydown(key)
    \/ Main_animate
    \/ \E pose \in OrbitPoses : Main_onControlsStart(pose)
    \/ \E asset \in SUBSET P0AssetNodes : P0_onLoad(asset)
    \/ P0_onError
    \/ \E hit \in scene \cup {null} : P0_onPointerDown(hit)
    \/ P0_returnToOffice
    \/ \E key \in Keys : P0_onKeydown(key)
    \/ P0_animate
    \/ \E pose \in OrbitPoses : P0_onControlsDrag(pose)

Spec == Init /\ [][Next]_vars

\* the display keeps refreshing: gsap's ticker keeps stepping its tweens
FairSpec == Spec /\ WF_vars(GsapTick)

----------------------------------------------------------------------------
(* The view state, read off the program's state *)

FlyKinds == {tweens[i].kind : i \in {j \in 1..Len(tweens) : IsFly(tweens[j].kind)}}

\* the camera transitions in flight, each counted by its tween on camera.position
CameraTweens == Cardinality({i \in 1..Len(tweens) : OnPosition(tweens[i].kind)})

\* TRANSITIONING while a fly-in or fly-out is in flight, else FOCUSED while the
\* overlay is open, else ORBITING
ViewState ==
    IF FlyKinds # {} THEN "TRANSITIONING"
    ELSE IF ~overlayHidden THEN "FOCUSED"
    ELSE "ORBITING"

\* the view state with the direction of the transition in flight
Phase ==
    IF FlyKinds = {} THEN ViewState
    ELSE IF \A k \in FlyKinds : IsFlyIn(k) THEN "FLY_IN"
    ELSE IF \A k \in FlyKinds : IsFlyOut(k) THEN "FLY_OUT"
    ELSE "MIXED"

IsInteractive(obj) ==
    IF impl = "main" THEN Main_IsInteractive(obj) ELSE P0_IsInteractive(obj)

\* what the programs keep of the view: all but the event, the pick and the clocks
view == <<controlsEnabled, overlayHidden, uiHintShown, cameraPos, controlsTarget,
          cameraLook, tweens, monitorMesh, scene, loadState>>

\* this step is a tick in which a tween of one of the kinds ends
Completes(kinds) ==
    /\ e'.type = "tick"
    /\ \E i \in 1..Len(tweens) :
          /\ tweens[i].kind \in kinds
          /\ tweens[i].t + TickDt >= Duration(tweens[i].kind)

\* this step is a pointerdown whose nearest hit the program classifies as the
\* interactive surface
FocusRequest ==
    \E hit \in scene :
        /\ IsInteractive(hit)
        /\ (Main_onPointerDown(hit) \/ P0_onPointerDown(hit))

\* what a click on the close button does to the state
CloseEffect ==
    /\ overlayHidden'
    /\ uiHintShown'
    /\ Len(tweens') > Len(tweens)
    /\ SubSeq(tweens', 1, Len(tweens)) = tweens
    /\ IsFlyOut(tweens'[Len(tweens')].kind)
    /\ tweens'[Len(tweens')].to = WIDE_SHOT_POS \/ tweens'[Len(tweens')].to = WIDE_SHOT_TARGET
    /\ UNCHANGED <<controlsEnabled, cameraPos, controlsTarget, cameraLook, monitorMesh,
                   scene, loadState>>

----------------------------------------------------------------------------
(* The claims *)

\* C1: in both programs, in every reachable state controls.enabled is true if
\* and only if the view state is ORBITING (no fly-in or fly-out in flight and
\* the overlay not open).
C1_EnabledIffOrbiting == controlsEnabled <=> (ViewState = "ORBITING")

\* C2: in both programs, in every reachable state the overlay is visible if and
\* only if the view state is FOCUSED: never while a transition is in flight,
\* never once orbiting was re-enabled.
C2_OverlayIffFocused ==
    /\ ~overlayHidden <=> (ViewState = "FOCUSED")
    /\ ~overlayHidden => ~controlsEnabled

\* C3: the view state moves only along ORBITING -> TRANSITIONING -> FOCUSED ->
\* TRANSITIONING -> ORBITING, and never are two tweens on camera.position in
\* flight at once, part_000's intro tween included.
C3_OneTransitionAtATime ==
    [][ /\ CameraTweens' <= 1
        /\ <<Phase, Phase'>> \in
              { <<"ORBITING", "ORBITING">>, <<"ORBITING", "FLY_IN">>,
                <<"FLY_IN", "FLY_IN">>, <<"FLY_IN", "FOCUSED">>,
                <<"FOCUSED", "FOCUSED">>, <<"FOCUSED", "FLY_OUT">>,
                <<"FLY_OUT", "FLY_OUT">>, <<"FLY_OUT", "ORBITING">> } ]_vars

\* C4: a pointerdown that hits the interactive surface while the view state is
\* not ORBITING is ignored: no tween starts, and the view state, controls.enabled,
\* the overlay and the transition in flight stay as they are.
C4_FocusIgnoredUnlessOrbiting ==
    [][ (FocusRequest /\ ViewState # "ORBITING") => UNCHANGED view ]_vars

\* equal up to the rounding of one hundredth of a unit
Near(p, q) == \A i \in 1..3 : p[i] - q[i] \in -1..1

\* C5: in the state a fly-in has just completed in, the camera is at SIT_POS and
\* looks at SIT_TARGET; in the state a fly-out has just completed in, it is at
\* WIDE_SHOT_POS and looks at WIDE_SHOT_TARGET.
C5_PoseAtCompletion ==
    [][ /\ Completes({"flyIn", "tgtIn"}) =>
              (Near(cameraPos', SIT_POS) /\ cameraLook' = SIT_TARGET)
        /\ Completes({"flyOut", "tgtOut"}) =>
              (Near(cameraPos', WIDE_SHOT_POS) /\ cameraLook' = WIDE_SHOT_TARGET) ]_vars

\* a pointerdown on the resolved interactive surface has just been handled in
\* ORBITING: no transition but the one it may have started is in flight
PickedInOrbiting ==
    /\ e.type = "pointerdown"
    /\ monitorMesh # null
    /\ picked = monitorMesh
    /\ overlayHidden
    /\ Cardinality({i \in 1..Len(tweens) : IsFly(tweens[i].kind)}) <= 1
    /\ \A i \in 1..Len(tweens) :
          IsFly(tweens[i].kind) => (IsFlyIn(tweens[i].kind) /\ ~tweens[i].initted)

\* C6: a pointerdown on the resolved interactive surface while ORBITING starts a
\* fly-in, and with the tween engine stepping the FOCUSED state follows, overlay
\* visible and controls still disabled.
C6_PickLeadsToFocused ==
    PickedInOrbiting ~> (ViewState = "FOCUSED" /\ ~overlayHidden /\ ~controlsEnabled)

\* C7: in both programs an Escape key press while FOCUSED does what a click on
\* the close button does: the overlay is hidden at once and a fly-out to the
\* WIDE pose starts.
C7_EscapeIsClose ==
    [][ (e'.type = "keydown" /\ e'.key = "Escape" /\ ViewState = "FOCUSED")
        => CloseEffect ]_vars

\* C8: main.js moves the camera onto the idle circle in a frame only if the view
\* state is ORBITING and more than 1.5 s passed since the last input event; an
\* input event resets the idle time to zero; and a frame in ORBITING with more
\* than 1.5 s of idle time does move the camera onto the circle.
C8_IdleAutoOrbit ==
    [][ impl = "main" =>
        /\ (e'.type = "frame" /\ cameraPos' # cameraPos /\ OnIdleOrbit(cameraPos'))
              => (ViewState = "ORBITING" /\ sinceInput' > IDLE_THRESHOLD)
        /\ e'.type \in {"pointerdown", "start", "click", "keydown"}
              => (idleTime' = 0 /\ sinceInput' = 0)
        /\ (e'.type = "frame" /\ ViewState = "ORBITING" /\ controlsEnabled
            /\ sinceInput' > IDLE_THRESHOLD)
              => OnIdleOrbit(cameraPos') ]_vars

\* the name test of main.js, case-insensitive
NameMatches(obj) ==
    \/ includes(toLowerCase(nameOf(obj)), S_monitor)
    \/ includes(toLowerCase(nameOf(obj)), S_screen)

\* the step is main.js's pointerdown with nearest hit `hit`, and it starts one
\* fly-in to SIT_POS with the controls disabled
PickStartsFlyIn ==
    /\ ~controlsEnabled'
    /\ tweens' = Append(tweens, NewTween("flyIn", SIT_POS))
    /\ UNCHANGED <<overlayHidden, uiHintShown, cameraPos, controlsTarget, cameraLook,
                   monitorMesh, scene, loadState>>

\* C9: in main.js the nearest hit is interactive when it is monitorMesh,
\* and with monitorMesh unresolved it is still interactive when its name contains
\* 'screen' or 'monitor' in any case, so that a pick on it while ORBITING starts
\* the fly-in; a pick that matches neither rule, or hits nothing, changes nothing.
C9_FallbackWhenUnresolved ==
    [][ \A hit \in scene \cup {null} :
          Main_onPointerDown(hit) =>
             IF hit # null /\ ((monitorMesh # null /\ hit = monitorMesh) \/ NameMatches(hit))
             THEN ViewState = "ORBITING" => PickStartsFlyIn
             ELSE UNCHANGED view ]_vars

\* C9, what main.js does instead: with monitorMesh resolved the nearest hit is
\* interactive when it is monitorMesh or its name contains 'screen' or 'monitor'
\* in any case, and a pick on it while ORBITING starts the fly-in; with
\* monitorMesh unresolved no hit is interactive; a pick that is not interactive,
\* or hits nothing, starts no transition and changes nothing of the view.
C9_NoFallbackWhenUnresolved ==
    [][ \A hit \in scene \cup {null} :
          Main_onPointerDown(hit) =>
             IF hit # null /\ monitorMesh # null /\ (hit = monitorMesh \/ NameMatches(hit))
             THEN ViewState = "ORBITING" => PickStartsFlyIn
             ELSE UNCHANGED view ]_vars

\* C9, the case in question reached: main.js has handled a pointerdown on a mesh named like the
\* monitor while monitorMesh was unresolved, and no transition started.
C9_Witness ==
    /\ impl = "main"
    /\ loadState = "loaded"
    /\ e.type = "pointerdown"
    /\ monitorMesh = null
    /\ picked # null
    /\ NameMatches(picked)
    /\ tweens = <<>>
    /\ controlsEnabled

\* C10, as stated: once the error callback has fired monitorMesh is null for
\* good and no pointerdown starts a transition, in both programs; nor does one
\* before a load callback has fired; the per-frame loop stays enabled.
C10_FailureLeavesUnresolved ==
    /\ loadState # "loaded" =>
          (monitorMesh = null /\ tweens = <<>> /\ controlsEnabled /\ overlayHidden)
    /\ ENABLED (Main_animate \/ P0_animate)

\* C10, amended: before a load callback has fired, and in part_000
\* after the error callback, monitorMesh is null and no pointerdown starts a
\* transition; in main.js the error callback builds the procedural desk, and
\* monitorMesh is its screen mesh from then on; the per-frame loop stays enabled.
C10_FailureByProgram ==
    /\ (loadState = "pending" \/ (loadState = "failed" /\ impl = "part000")) =>
          (monitorMesh = null /\ tweens = <<>> /\ controlsEnabled /\ overlayHidden)
    /\ (loadState = "failed" /\ impl = "main") =>
          (monitorMesh = proceduralScreen.uuid /\ monitorMesh \in scene)
    /\ ENABLED (Main_animate \/ P0_animate)

\* C10, witness: after main.js's error callback a pointerdown on the procedural
\* screen has started a fly-in.
C10_Witness ==
    /\ impl = "main"
    /\ loadState = "failed"
    /\ e.type = "pointerdown"
    /\ picked = proceduralScreen.uuid
    /\ Len(tweens) = 1
    /\ tweens[1].kind = "flyIn"
    /\ ~controlsEnabled

\* a tween whose onComplete opens the overlay or re-enables the controls is in
\* flight
TransitionPending == \E i \in 1..Len(tweens) : IsFly(tweens[i].kind)

\* C11: in both programs, in every reachable state the controls are enabled, or
\* the overlay is visible, or a camera tween whose onComplete opens the overlay
\* or re-enables the controls is in flight: never are the controls disabled and
\* the overlay hidden with no transition pending.
C11_NoStuckState == controlsEnabled \/ ~overlayHidden \/ TransitionPending

\* C11, witness: the overlay was closed and the fly-out is under way, controls
\* disabled and overlay hidden: only the pending fly-out leads back to orbiting.
C11_Witness ==
    /\ ~controlsEnabled
    /\ overlayHidden
    /\ Len(tweens) >= 1
    /\ \A i \in 1..Len(tweens) : IsFly(tweens[i].kind) => IsFlyOut(tweens[i].kind)
    /\ \E i \in 1..Len(tweens) : IsFlyOut(tweens[i].kind) /\ tweens[i].initted

====
